---- MODULE Spec2Model ----
(***************************************************************************)
(* A model of task.js: one Task object, the executions started on it by    *)
(* Task#do, and the calls and callbacks that reach it afterwards: the      *)
(* template's done/failed handles, the settlement of a Promise the         *)
(* template returned, Task#cancel, Task#timeout and the expiry of the      *)
(* timers armed by Task#do.                                                *)
(*                                                                         *)
(* JavaScript runs every call and every callback to completion, so each    *)
(* of them is one action.  A timer armed by setTimeout expires at some     *)
(* turn after it was armed unless clearTimeout disarmed it first.  A        *)
(* template calls its handles while it runs and at any later turn; it      *)
(* does not call do, cancel or timeout of its own Task while it runs.      *)
(***************************************************************************)
EXTENDS Integers, Sequences, FiniteSets, TLC

\* ------------------------------------------------------------------ bounds
\* Executions started on the Task (calls of Task#do).
MaxExec == 2
\* Handle calls a template makes before it returns or throws.
MaxSync == 1

\* Success values, failure reasons, thrown values, cancel and timeout reasons.
Values == {"a", "b"}

\* The milliseconds arguments handed to Task#timeout, as typeof sees them.
Num(n) == [type |-> "number", val |-> n]
NonNum(t) == [type |-> t, val |-> 0]
MsInputs == {Num(-1), Num(1), NonNum("string")}

Execs == 1..MaxExec

\* ------------------------------------------------------------ the Task
\* _cancel: null, or the _reject closure of execution e (written e).
Null == 0
\* _timeout: null, or the closure made by Task#timeout over milliseconds, reason.
NoTimeout == [set |-> FALSE, ms |-> 0, reason |-> "none"]
\* The timer of one execution (its local `timeout`): pending with the reason
\* bound into its callback, or not pending (never armed, disarmed or expired).
NoTimer == [armed |-> FALSE, reason |-> "none"]
\* The Promise returned by Task#do.
NotStarted == [state |-> "none", val |-> "none"]
Pending == [state |-> "pending", val |-> "none"]

VARIABLES
    _cancel,    \* Task#_cancel
    _timeout,   \* Task#_timeout
    fut,        \* fut[e]: the Promise Task#do returned for execution e
    timer,      \* timer[e]: the timer armed for execution e
    retp,       \* retp[e]: the template of e returned a Promise, not yet settled
    first,      \* the first signal the template of the latest execution gave
    nexec,      \* executions started so far
    last,       \* the call or callback that ran last, its arguments and result
    tasks,      \* a composite's array of element Tasks (the closure's `tasks`)
    run,        \* run[e]: what the composite's template did in execution e
    supplied    \* the array handed to Task.sequence / Task.parallel, as its owner sees it

vars == <<_cancel, _timeout, fut, timer, retp, first, nexec, last, tasks, run, supplied>>

\* The mutable state the closures of Task#do share.
Core == [cancel |-> _cancel, timeout |-> _timeout, fut |-> fut, timer |-> timer]

Commit(S) ==
    /\ _cancel' = S.cancel
    /\ _timeout' = S.timeout
    /\ fut' = S.fut
    /\ timer' = S.timer

typeof(x) == x.type

\* resolve, were a settled Promise settled again by a later call.
resolve_again(S, e, v) ==
    [S EXCEPT !.fut[e] = [state |-> "resolved", val |-> v]]

\* The resolve function of the Promise of execution e: settles it once.
resolve(S, e, v) ==
    IF S.fut[e].state = "pending"
    THEN [S EXCEPT !.fut[e] = [state |-> "resolved", val |-> v]]
    ELSE S

\* The reject function of the Promise of execution e: settles it once.
reject(S, e, r) ==
    IF S.fut[e].state = "pending"
    THEN [S EXCEPT !.fut[e] = [state |-> "rejected", val |-> r]]
    ELSE S

\* if (timeout) { clearTimeout(timeout); timeout = null; }
clearTimeout(S, e) ==
    [S EXCEPT !.timer[e] = NoTimer]

\* The _resolve closure of execution e.
_resolve(S, e, v) ==
    resolve([clearTimeout(S, e) EXCEPT !.timeout = NoTimeout, !.cancel = Null], e, v)

\* The _reject closure of execution e.
_reject(S, e, r) ==
    reject([clearTimeout(S, e) EXCEPT !.timeout = NoTimeout, !.cancel = Null], e, r)

\* One call of a handle by the template of execution e.
Handle(S, e, sig) ==
    IF sig.kind = "done" THEN _resolve(S, e, sig.val) ELSE _reject(S, e, sig.val)

RECURSIVE RunCalls(_, _, _)
RunCalls(S, e, calls) ==
    IF calls = <<>> THEN S
    ELSE RunCalls(Handle(S, e, Head(calls)), e, Tail(calls))

\* What a template does before control returns to Task#do: handle calls, then
\* a return (of undefined, of a plain value, of a Promise) or a throw.
Signals == [kind : {"done", "failed"}, val : Values]
Ends == [kind : {"value", "throw"}, val : Values]
            \cup {[kind |-> "undefined", val |-> "none"], [kind |-> "promise", val |-> "none"]}
SyncCalls == UNION {[1..n -> Signals] : n \in 0..MaxSync}

\* The first completion signal of a template run: its first handle call, or
\* failing that the way it ended.
FirstSignal(calls, end) == IF calls = <<>> THEN end ELSE Head(calls)

\* doTask, were the template's return value or throw taken before its handle calls.
doTask_returnFirst(S, e, calls, end) ==
    LET S0 == [S EXCEPT
                  !.fut[e] = Pending,
                  !.timer[e] = IF S.timeout.set
                               THEN [armed |-> TRUE, reason |-> S.timeout.reason]
                               ELSE NoTimer,
                  !.cancel = e]
        S1 == CASE end.kind = "throw" -> reject(S0, e, end.val)
                [] end.kind = "value" -> _resolve(S0, e, end.val)
                [] OTHER -> S0
    IN  RunCalls(S1, e, calls)

\* doTask, were a throw of the template caught and dropped.
doTask_swallow(S, e, calls, end) ==
    LET S0 == [S EXCEPT
                  !.fut[e] = Pending,
                  !.timer[e] = IF S.timeout.set
                               THEN [armed |-> TRUE, reason |-> S.timeout.reason]
                               ELSE NoTimer,
                  !.cancel = e]
        S1 == RunCalls(S0, e, calls)
    IN  CASE end.kind = "value" -> _resolve(S1, e, end.val)
          [] OTHER -> S1

\* doTask, were a plain value returned by the template dropped.
doTask_ignoreValue(S, e, calls, end) ==
    LET S0 == [S EXCEPT
                  !.fut[e] = Pending,
                  !.timer[e] = IF S.timeout.set
                               THEN [armed |-> TRUE, reason |-> S.timeout.reason]
                               ELSE NoTimer,
                  !.cancel = e]
        S1 == RunCalls(S0, e, calls)
    IN  CASE end.kind = "throw" -> reject(S1, e, end.val)
          [] OTHER -> S1

\* doTask, were undefined resolved like any other value the template returns.
doTask_settleUndefined(S, e, calls, end) ==
    LET S0 == [S EXCEPT
                  !.fut[e] = Pending,
                  !.timer[e] = IF S.timeout.set
                               THEN [armed |-> TRUE, reason |-> S.timeout.reason]
                               ELSE NoTimer,
                  !.cancel = e]
        S1 == RunCalls(S0, e, calls)
    IN  CASE end.kind = "throw" -> reject(S1, e, end.val)
          [] end.kind \in {"value", "undefined"} -> _resolve(S1, e, end.val)
          [] OTHER -> S1

\* doTask, were a throw of the template to leave do() and no Promise be made.
doTask_rethrow(S, e, calls, end) ==
    LET S0 == [S EXCEPT
                  !.fut[e] = Pending,
                  !.timer[e] = IF S.timeout.set
                               THEN [armed |-> TRUE, reason |-> S.timeout.reason]
                               ELSE NoTimer,
                  !.cancel = e]
        S1 == RunCalls(S0, e, calls)
    IN  CASE end.kind = "throw" -> [S1 EXCEPT !.fut[e] = NotStarted]
          [] end.kind = "value" -> _resolve(S1, e, end.val)
          [] OTHER -> S1

\* Task.prototype.do, the executor of the Promise it returns, for execution e.
doTask(S, e, calls, end) ==
    LET S0 == [S EXCEPT
                  !.fut[e] = Pending,
                  !.timer[e] = IF S.timeout.set
                               THEN [armed |-> TRUE, reason |-> S.timeout.reason]
                               ELSE NoTimer,
                  !.cancel = e]
        S1 == RunCalls(S0, e, calls)
    IN  CASE end.kind = "throw" -> reject(S1, e, end.val)
          [] end.kind = "value" -> _resolve(S1, e, end.val)
          [] OTHER -> S1

\* Task.prototype.cancel: the state after the call and the value returned.
cancel(S, reason) ==
    IF S.cancel # Null
    THEN [S |-> _reject(S, S.cancel, reason), ret |-> "true"]
    ELSE [S |-> S, ret |-> "false"]

\* timeout, were the typeof check on milliseconds missing.
timeout_unchecked(S, milliseconds, reason) ==
    IF S.cancel = Null
    THEN [S |-> [S EXCEPT !.timeout = [set |-> TRUE, ms |-> milliseconds.val,
                                       reason |-> reason]],
          ret |-> "true"]
    ELSE [S |-> S, ret |-> "false"]

\* Task.prototype.timeout: the state after the call and the value returned,
\* "threw" when it throws.
timeout(S, milliseconds, reason) ==
    IF typeof(milliseconds) # "number"
    THEN [S |-> S, ret |-> "threw"]
    ELSE IF S.cancel = Null
         THEN [S |-> [S EXCEPT !.timeout = [set |-> TRUE, ms |-> milliseconds.val,
                                            reason |-> reason]],
               ret |-> "true"]
         ELSE [S |-> S, ret |-> "false"]

\* The callback of the timer armed for execution e: this.cancel.bind(this, reason).
expire(S, e) ==
    cancel([S EXCEPT !.timer[e] = NoTimer], S.timer[e].reason).S

\* The record kept of the call or callback that ran last: which, on which
\* execution, with which arguments, returning what.
NoSignal == [kind |-> "none", val |-> "none"]
Op(op, e, sig, ms, ret) == [op |-> op, e |-> e, sig |-> sig, ms |-> ms, ret |-> ret]

\* An execution in which no composite template ran.
NoRun == [args |-> <<>>, log |-> <<>>, ret |-> NotStarted]

\* What the caller handed to a constructor that takes an array: which
\* constructor, and the array as the caller sees it now.
Supplied(ctor, array) == [ctor |-> ctor, array |-> array]
\* The Task was made by a constructor that takes no array.
NotSupplied == Supplied("none", <<>>)

\* ------------------------------------------------------------ actions
\* new Task(name, template)
TaskInit ==
    /\ _cancel = Null
    /\ _timeout = NoTimeout
    /\ fut = [e \in Execs |-> NotStarted]
    /\ timer = [e \in Execs |-> NoTimer]
    /\ retp = [e \in Execs |-> FALSE]
    /\ first = NoSignal
    /\ nexec = 0
    /\ last = Op("none", 0, NoSignal, Num(0), "none")
    /\ run = [e \in Execs |-> NoRun]

\* A Task made from a plain template: there is no array of element Tasks.
Init ==
    /\ TaskInit
    /\ tasks = <<>>
    /\ supplied = NotSupplied

\* task.do(...): the template runs synchronously inside it.
Do ==
    /\ nexec < MaxExec
    /\ \E calls \in SyncCalls, end \in Ends :
         LET e == nexec + 1 IN
         /\ Commit(doTask(Core, e, calls, end))
         /\ retp' = [retp EXCEPT ![e] = (end.kind = "promise")]
         /\ nexec' = e
         /\ first' = FirstSignal(calls, end)
         /\ last' = Op("do", e, NoSignal, Num(0), "none")
    /\ UNCHANGED <<tasks, run, supplied>>

\* The template of execution e calls done(v) after it returned.
LateDone ==
    \E e \in 1..nexec, v \in Values :
        /\ Commit(_resolve(Core, e, v))
        /\ last' = Op("done", e, NoSignal, Num(0), "none")
        /\ UNCHANGED <<retp, first, nexec, tasks, run, supplied>>

\* The template of execution e calls failed(r) after it returned.
LateFailed ==
    \E e \in 1..nexec, r \in Values :
        /\ Commit(_reject(Core, e, r))
        /\ last' = Op("failed", e, NoSignal, Num(0), "none")
        /\ UNCHANGED <<retp, first, nexec, tasks, run, supplied>>

\* The Promise the template of e returned resolves: ret.then(_resolve).
RetResolved ==
    \E e \in 1..nexec, v \in Values :
        /\ retp[e]
        /\ Commit(_resolve(Core, e, v))
        /\ retp' = [retp EXCEPT ![e] = FALSE]
        /\ last' = Op("retResolved", e, [kind |-> "done", val |-> v], Num(0), "none")
        /\ UNCHANGED <<first, nexec, tasks, run, supplied>>

\* The Promise the template of e returned rejects: .catch(_reject).
RetRejected ==
    \E e \in 1..nexec, r \in Values :
        /\ retp[e]
        /\ Commit(_reject(Core, e, r))
        /\ retp' = [retp EXCEPT ![e] = FALSE]
        /\ last' = Op("retRejected", e, [kind |-> "failed", val |-> r], Num(0), "none")
        /\ UNCHANGED <<first, nexec, tasks, run, supplied>>

\* task.cancel(reason)
Cancel ==
    \E reason \in Values :
        LET c == cancel(Core, reason) IN
        /\ Commit(c.S)
        /\ last' = Op("cancel", 0, [kind |-> "reason", val |-> reason], Num(0), c.ret)
        /\ UNCHANGED <<retp, first, nexec, tasks, run, supplied>>

\* task.timeout(milliseconds, reason)
Timeout ==
    \E milliseconds \in MsInputs, reason \in Values :
        LET t == timeout(Core, milliseconds, reason) IN
        /\ Commit(t.S)
        /\ last' = Op("timeout", 0, [kind |-> "reason", val |-> reason], milliseconds, t.ret)
        /\ UNCHANGED <<retp, first, nexec, tasks, run, supplied>>

\* The timer armed for execution e expires.
Expire ==
    \E e \in 1..nexec :
        /\ timer[e].armed
        /\ Commit(expire(Core, e))
        /\ last' = Op("expire", e, NoSignal, Num(0), "none")
        /\ UNCHANGED <<retp, first, nexec, tasks, run, supplied>>

Next ==
    \/ Do
    \/ LateDone
    \/ LateFailed
    \/ RetResolved
    \/ RetRejected
    \/ Cancel
    \/ Timeout
    \/ Expire

Spec == Init /\ [][Next]_vars

\* ------------------------------------------------------------ properties
Resolved(v) == [state |-> "resolved", val |-> v]
Rejected(r) == [state |-> "rejected", val |-> r]
Settled(e) == fut[e].state \in {"resolved", "rejected"}
Outstanding(e) == fut[e].state = "pending"
Idle == \A e \in Execs : ~Outstanding(e)
Signalled == last'.op \in {"done", "failed", "retResolved", "retRejected"}

\* C1: the future of an execution settles at most once: once it is resolved
\* or rejected, no done/failed call, returned value or future, cancel() or
\* timer expiry changes its state or its value.
C1_SettlesOnce ==
    [][\A e \in Execs : Settled(e) => fut'[e] = fut[e]]_vars

\* A template returned a plain value and called failed() afterwards.
C1_Witness ==
    /\ nexec > 0
    /\ first.kind = "value"
    /\ last.op = "failed" /\ last.e = nexec
    /\ fut[nexec] = Resolved(first.val)

\* C2: the first completion signal of an execution decides its outcome: when
\* the template's first signal is a synchronous done(v) the future is resolved
\* with v, when it is a synchronous failed(r) the future is rejected with r,
\* whatever the template does next (another handle call, a throw, a returned
\* value or future) and whatever reaches the Task later.
C2_FirstSignalWins ==
    nexec > 0 =>
        /\ first.kind = "done" => fut[nexec] = Resolved(first.val)
        /\ first.kind = "failed" => fut[nexec] = Rejected(first.val)

\* A template called done(v) synchronously and failed() afterwards.
C2_Witness ==
    /\ nexec > 0
    /\ first.kind = "done"
    /\ last.op = "failed" /\ last.e = nexec
    /\ fut[nexec].state = "resolved"

\* C3: cancel(reason) called while the latest execution is outstanding
\* returns true and rejects that execution's future with exactly reason.
C3_CancelRejectsOutstanding ==
    [][(last'.op = "cancel" /\ nexec > 0 /\ Outstanding(nexec))
        => /\ last'.ret = "true"
           /\ fut'[nexec] = Rejected(last'.sig.val)]_vars

\* C4: whenever no execution is outstanding the cancellation handle is
\* absent, and cancel() then returns false and changes nothing.
C4_NoHandleWhenIdle ==
    /\ [](Idle => _cancel = Null)
    /\ [][(last'.op = "cancel" /\ Idle)
           => /\ last'.ret = "false"
              /\ UNCHANGED <<_cancel, _timeout, fut, timer>>]_vars

\* C5: when the timer armed for an execution expires while the execution is
\* outstanding, its future rejects with exactly the configured reason; when
\* the execution has settled before, the expiry leaves its outcome alone.
C5_TimeoutRejects ==
    [][last'.op = "expire"
        => IF Outstanding(last'.e)
           THEN fut'[last'.e] = Rejected(timer[last'.e].reason)
           ELSE fut'[last'.e] = fut[last'.e]]_vars

\* C6: timeout(ms, reason) with a numeric ms returns true exactly when no
\* execution is outstanding, and then records ms and reason; while one is
\* outstanding it returns false and changes neither timers nor configuration.
C6_TimeoutWhenIdle ==
    [][(last'.op = "timeout" /\ typeof(last'.ms) = "number")
        => IF Idle
           THEN /\ last'.ret = "true"
                /\ _timeout' = [set |-> TRUE, ms |-> last'.ms.val,
                                reason |-> last'.sig.val]
           ELSE /\ last'.ret = "false"
                /\ UNCHANGED <<_timeout, timer>>]_vars

\* C7: a configured timeout is consumed by the do() that follows it: a do()
\* issued right after another do(), with no timeout() call between them,
\* runs with no timer armed.
C7_TimeoutOneShot ==
    [][(last.op = "do" /\ last'.op = "do") => ~timer'[nexec'].armed]_vars

\* C8 as stated: timeout() throws, and records nothing, for every
\* milliseconds argument that is not a number and for every negative number.
C8_ThrowsUnlessNonNegative ==
    [][(last'.op = "timeout" /\ (typeof(last'.ms) # "number" \/ last'.ms.val < 0))
        => /\ last'.ret = "threw"
           /\ _timeout' = _timeout]_vars

\* C8, amended: timeout() throws, and changes nothing, exactly when the
\* milliseconds argument is not of type number; a negative number is accepted
\* like any other number.
C8_ThrowsUnlessNumber ==
    [][last'.op = "timeout"
        => IF typeof(last'.ms) # "number"
           THEN /\ last'.ret = "threw"
                /\ UNCHANGED <<_cancel, _timeout, fut, timer>>
           ELSE last'.ret # "threw"]_vars

\* timeout() threw on a non-number while a timeout was configured.
C8_Witness ==
    /\ last.op = "timeout"
    /\ typeof(last.ms) # "number"
    /\ last.ret = "threw"
    /\ _timeout.set

\* C9: a done/failed call, or the settlement of the returned future, that
\* belongs to an execution already settled changes neither any outcome nor
\* the Task's cancellation handle nor its configured timeout (the handle
\* being another execution's, or absent).
C9_LateSignalNoOp ==
    [][(Signalled /\ Settled(last'.e) /\ _cancel # last'.e)
        => UNCHANGED <<fut, _cancel, _timeout>>]_vars

\* C10: the expiry of the timer armed for an execution that has settled
\* changes the future of no other execution.
C10_ExpiryStaysInExecution ==
    [][(last'.op = "expire" /\ Settled(last'.e))
        => \A f \in Execs : f # last'.e => fut'[f] = fut[f]]_vars

\* ============================================================ composites
\* A composite is a Task whose template drives element Tasks and returns a
\* Promise; the Task of the model is the composite, run[e].ret the Promise
\* its template returned in execution e, and run[e].log the element
\* invocations (task.do calls) the template made in that execution, in order,
\* each with the arguments it passed and the outcome of the Promise it got.

\* Elements of the array handed to Task.sequence / Task.parallel.
NTasks == 2

\* Argument lists handed to the composite's do().
ArgLists == {<<>>, <<"a">>, <<"b", "a">>}

\* The value of a Promise resolved with no value.
Undefined == "undefined"

PendingOut == [st |-> "pending", val |-> "none"]
Ok(v) == [st |-> "ok", val |-> v]
Failed(r) == [st |-> "failed", val |-> r]
Invocation(el, as) == [el |-> el, args |-> as, out |-> PendingOut]

\* tasks = tasks.map(...): the Tasks of the array, bare templates wrapped.
TaskArray == [i \in 1..NTasks |-> i]

\* Promise.resolve.apply(Promise, arguments)
PromiseResolve(as) == Resolved(IF as = <<>> THEN Undefined ELSE as[1])

\* The outcome of the last invocation of log L set to out.
Settle(L, out) == [L EXCEPT ![Len(L)].out = out]

\* The last invocation of execution e is outstanding.
Running(e) ==
    /\ run[e].log # <<>>
    /\ run[e].log[Len(run[e].log)].out.st = "pending"

\* ------------------------------------------------------------ Task.sequence
\* next() called with arguments as, in the execution R, the array being T:
\* the array and the execution afterwards.
next(T, R, as) ==
    IF Len(T) > 0
    THEN [tasks |-> Tail(T),
          run |-> [R EXCEPT !.log = Append(@, Invocation(Head(T), as)),
                            !.ret = Pending]]
    ELSE [tasks |-> T, run |-> [R EXCEPT !.ret = PromiseResolve(as)]]

\* suppliedArray, were the closure to keep the array it was handed.
suppliedArray_shared(A, T) == T

\* tasks = tasks.map(...) makes the closure's array a new Array: the array
\* the caller handed over, A, is another object than the one next() shifts,
\* and is as it was whatever the closure's array T has become.
suppliedArray(A, T) == A

\* The template of the composite: next.apply(null, args).
sequenceTemplate(T, as) ==
    next(T, [args |-> as, log |-> <<>>, ret |-> Pending], as)

\* thenNext, were next also the handler of a rejection.
thenNext_always(T, R, out) ==
    next(T, [R EXCEPT !.log = Settle(@, out)], <<out.val>>)

\* task.do(...).then(next) once the element's Promise has settled with out.
thenNext(T, R, out) ==
    IF out.st = "ok"
    THEN next(T, [R EXCEPT !.log = Settle(@, out)], <<out.val>>)
    ELSE [tasks |-> T,
          run |-> [R EXCEPT !.log = Settle(@, out), !.ret = Rejected(out.val)]]

SeqInit ==
    /\ TaskInit
    /\ tasks = TaskArray
    /\ supplied = Supplied("sequence", TaskArray)

\* composite.do(...args): the template runs next() once inside it.
SeqDo ==
    /\ nexec < MaxExec
    /\ \E as \in ArgLists :
         LET e == nexec + 1
             n == sequenceTemplate(tasks, as)
         IN
         /\ Commit(doTask(Core, e, <<>>, [kind |-> "promise", val |-> "none"]))
         /\ retp' = [retp EXCEPT ![e] = TRUE]
         /\ nexec' = e
         /\ first' = [kind |-> "promise", val |-> "none"]
         /\ last' = Op("do", e, NoSignal, Num(0), "none")
         /\ tasks' = n.tasks
         /\ supplied' = [supplied EXCEPT !.array = suppliedArray(@, n.tasks)]
         /\ run' = [run EXCEPT ![e] = n.run]

\* The element outstanding in execution e succeeds with v, or with no value
\* when it called done().
SeqElementDone ==
    \E e \in 1..nexec, v \in Values \cup {Undefined} :
        /\ Running(e)
        /\ LET n == thenNext(tasks, run[e], Ok(v)) IN
           /\ tasks' = n.tasks
           /\ supplied' = [supplied EXCEPT !.array = suppliedArray(@, n.tasks)]
           /\ run' = [run EXCEPT ![e] = n.run]
        /\ last' = Op("element", e, NoSignal, Num(0), "none")
        /\ UNCHANGED <<_cancel, _timeout, fut, timer, retp, first, nexec>>

\* The element outstanding in execution e fails with r.
SeqElementFailed ==
    \E e \in 1..nexec, r \in Values :
        /\ Running(e)
        /\ LET n == thenNext(tasks, run[e], Failed(r)) IN
           /\ tasks' = n.tasks
           /\ supplied' = [supplied EXCEPT !.array = suppliedArray(@, n.tasks)]
           /\ run' = [run EXCEPT ![e] = n.run]
        /\ last' = Op("element", e, NoSignal, Num(0), "none")
        /\ UNCHANGED <<_cancel, _timeout, fut, timer, retp, first, nexec>>

\* The Promise the composite's template returned has settled:
\* ret.then(_resolve).catch(_reject) runs.
RetSettled ==
    \E e \in 1..nexec :
        /\ retp[e]
        /\ run[e].ret.state \in {"resolved", "rejected"}
        /\ Commit(IF run[e].ret.state = "resolved"
                  THEN _resolve(Core, e, run[e].ret.val)
                  ELSE _reject(Core, e, run[e].ret.val))
        /\ retp' = [retp EXCEPT ![e] = FALSE]
        /\ last' = Op("retSettled", e, NoSignal, Num(0), "none")
        /\ UNCHANGED <<first, nexec, tasks, run, supplied>>

SeqNext ==
    \/ SeqDo
    \/ SeqElementDone
    \/ SeqElementFailed
    \/ RetSettled

SeqSpec == SeqInit /\ [][SeqNext]_vars

\* ------------------------------------------------------ parallel and map
\* Executions of a parallel, map or retry composite.
MaxRuns == 1

\* An argument of do(): a bare value or an array.
Bare(v) == [isArray |-> FALSE, val |-> v]
Arr(items) == [isArray |-> TRUE, val |-> items]

\* Argument groups handed to the do() of a parallel composite.
GroupLists ==
    {<<>>, <<Bare("a")>>, <<Bare("a"), Arr(<<"b", "a">>)>>,
     <<Arr(<<"b">>), Bare("a"), Bare("b"), Bare("a")>>}

\* The argument handed to the do() of a map composite.
MapInputs == {Bare("a"), Arr(<<>>), Arr(<<"a", "b">>), Arr(<<"b", "b", "a">>)}

\* Task.map(name, template): the closure holds one template, wrapped in a
\* new Task for each item.
MapTemplate == <<0>>
MapError == "Argument to Task#do() must be an array."

\* What the i-th Promise handed to Promise.all settles with: each element has
\* a success value and a failure reason of its own.
ValueAt(i) == <<"v1", "v2", "v3", "v4">>[i]
ReasonAt(i) == <<"r1", "r2", "r3", "r4">>[i]

\* Array.isArray(taskArgs) ? taskArgs : [taskArgs]
taskArgs(g) == IF g.isArray THEN g.val ELSE <<g.val>>

\* args[i], were every element handed the first group.
applyArgs_shared(args, i) == IF args = <<>> THEN <<>> ELSE args[1]

\* task.do.apply(task, args[i]): no arguments when there is no i-th group.
applyArgs(args, i) == IF i <= Len(args) THEN args[i] ELSE <<>>

\* Promise.all over the Promises of the invocations L, none of them settled.
PromiseAll(L) == IF L = <<>> THEN Resolved(<<>>) ELSE Pending

\* The parallel template, were only the first element invoked by do().
parallelTemplate_lazy(T, gs) ==
    LET args == [k \in 1..Len(gs) |-> taskArgs(gs[k])]
        log == [i \in 1..1 |-> Invocation(T[i], applyArgs(args, i))]
    IN [args |-> gs, log |-> log, ret |-> PromiseAll(log)]

\* The template of the parallel composite run with argument groups gs.
parallelTemplate(T, gs) ==
    LET args == [k \in 1..Len(gs) |-> taskArgs(gs[k])]
        log == [i \in 1..Len(T) |-> Invocation(T[i], applyArgs(args, i))]
    IN [args |-> gs, log |-> log, ret |-> PromiseAll(log)]

\* The map template, were every invocation handed the first item.
mapTemplate_first(T, array) ==
    LET log == [i \in 1..Len(array.val) |-> Invocation(T[1], <<array.val[1]>>)]
    IN [args |-> <<array>>, log |-> log, ret |-> PromiseAll(log)]

\* The map template, were an item handed over as an argument list
\* (task.do.apply(task, item)).
mapTemplate_spread(T, array) ==
    LET log == [i \in 1..Len(array.val) |->
                   Invocation(T[1], IF array.val[i].isArray THEN array.val[i].val
                                    ELSE <<array.val[i]>>)]
    IN [args |-> <<array>>, log |-> log, ret |-> PromiseAll(log)]

\* The template of the map composite run with the array items.
mapTemplate(T, array) ==
    LET log == [i \in 1..Len(array.val) |-> Invocation(T[1], <<array.val[i]>>)]
    IN [args |-> <<array>>, log |-> log, ret |-> PromiseAll(log)]

AllOk(L) == \A k \in 1..Len(L) : L[k].out.st = "ok"
Results(L) == [k \in 1..Len(L) |-> L[k].out.val]
Reversed(s) == [k \in 1..Len(s) |-> s[Len(s) + 1 - k]]

\* allSettled, were the results collected back to front.
allSettled_reversed(R, i, out) ==
    LET L == [R.log EXCEPT ![i].out = out] IN
    [R EXCEPT !.log = L,
              !.ret = IF R.ret.state # "pending" THEN R.ret
                      ELSE IF out.st = "failed" THEN Rejected(out.val)
                      ELSE IF AllOk(L) THEN Resolved(Reversed(Results(L)))
                      ELSE Pending]

\* allSettled, were every failure to reject the Promise anew.
allSettled_lastFailure(R, i, out) ==
    LET L == [R.log EXCEPT ![i].out = out] IN
    [R EXCEPT !.log = L,
              !.ret = IF out.st = "failed" THEN Rejected(out.val)
                      ELSE IF R.ret.state # "pending" THEN R.ret
                      ELSE IF AllOk(L) THEN Resolved(Results(L))
                      ELSE Pending]

\* allSettled, were a failure reported only when every Promise has settled.
allSettled_waitAll(R, i, out) ==
    LET L == [R.log EXCEPT ![i].out = out] IN
    [R EXCEPT !.log = L,
              !.ret = IF R.ret.state # "pending" THEN R.ret
                      ELSE IF \E k \in 1..Len(L) : L[k].out.st = "pending" THEN Pending
                      ELSE IF AllOk(L) THEN Resolved(Results(L))
                      ELSE Rejected(out.val)]

\* Promise.all once the Promise of invocation i of the run R settled with out.
allSettled(R, i, out) ==
    LET L == [R.log EXCEPT ![i].out = out] IN
    [R EXCEPT !.log = L,
              !.ret = IF R.ret.state # "pending" THEN R.ret
                      ELSE IF out.st = "failed" THEN Rejected(out.val)
                      ELSE IF AllOk(L) THEN Resolved(Results(L))
                      ELSE Pending]

\* Task.parallel(name, tasks) or Task.map(name, template)
ParInit ==
    /\ TaskInit
    /\ tasks \in {TaskArray, MapTemplate}
    /\ supplied = IF tasks = TaskArray THEN Supplied("parallel", TaskArray) ELSE NotSupplied

\* do(g1, ..., gn) on a parallel composite
ParDo ==
    /\ nexec < MaxRuns
    /\ tasks = TaskArray
    /\ \E gs \in GroupLists :
         LET e == nexec + 1 IN
         /\ Commit(doTask(Core, e, <<>>, [kind |-> "promise", val |-> "none"]))
         /\ retp' = [retp EXCEPT ![e] = TRUE]
         /\ nexec' = e
         /\ first' = [kind |-> "promise", val |-> "none"]
         /\ last' = Op("do", e, NoSignal, Num(0), "none")
         /\ run' = [run EXCEPT ![e] = parallelTemplate(tasks, gs)]
         /\ UNCHANGED <<tasks, supplied>>

\* do(array) on a map composite
MapDo ==
    /\ nexec < MaxRuns
    /\ tasks = MapTemplate
    /\ \E x \in MapInputs :
         LET e == nexec + 1
             end == IF x.isArray THEN [kind |-> "promise", val |-> "none"]
                    ELSE [kind |-> "throw", val |-> MapError]
         IN
         /\ Commit(doTask(Core, e, <<>>, end))
         /\ retp' = [retp EXCEPT ![e] = x.isArray]
         /\ nexec' = e
         /\ first' = end
         /\ last' = Op("do", e, NoSignal, Num(0), "none")
         /\ run' = [run EXCEPT ![e] = IF x.isArray THEN mapTemplate(tasks, x)
                                      ELSE [NoRun EXCEPT !.args = <<x>>]]
         /\ UNCHANGED <<tasks, supplied>>

\* The Promise of an element settles and the handler of Promise.all runs.
ParElementDone ==
    \E e \in 1..nexec : \E i \in 1..Len(run[e].log) :
        /\ tasks \in {TaskArray, MapTemplate}
        /\ run[e].log[i].out.st = "pending"
        /\ run' = [run EXCEPT ![e] = allSettled(run[e], i, Ok(ValueAt(i)))]
        /\ last' = Op("element", e, NoSignal, Num(0), "none")
        /\ UNCHANGED <<_cancel, _timeout, fut, timer, retp, first, nexec, tasks, supplied>>

ParElementFailed ==
    \E e \in 1..nexec : \E i \in 1..Len(run[e].log) :
        /\ tasks \in {TaskArray, MapTemplate}
        /\ run[e].log[i].out.st = "pending"
        /\ run' = [run EXCEPT ![e] = allSettled(run[e], i, Failed(ReasonAt(i)))]
        /\ last' = Op("element", e, NoSignal, Num(0), "none")
        /\ UNCHANGED <<_cancel, _timeout, fut, timer, retp, first, nexec, tasks, supplied>>

ParNext ==
    \/ ParDo
    \/ MapDo
    \/ ParElementDone
    \/ ParElementFailed
    \/ RetSettled

ParSpec == ParInit /\ [][ParNext]_vars

\* ---------------------------------------------------------------- retry
\* The largest number of tries handed to the do() of a retry composite.
MaxTries == 3

\* The last argument of do(): the number of tries, or not a number.
Budgets == {Num(n) : n \in -1..MaxTries} \cup {NonNum("string")}

\* An execution whose template threw on the arguments all of do().
Thrown(as, all) == [args |-> as, log |-> <<>>, ret |-> NotStarted, all |-> all]

\* The arguments of do() before the last.
TryArgs == {<<>>, <<"b", "a">>}

\* Task.try(name, template) and Task.delay(name, template): the one template
\* the closure holds, numbered below 1 to tell the composites apart.
TryTemplate == <<-1>>
DelayTemplate == <<-2>>

TryError == "Last argument for Task#do() must be a number (number of tries)."

\* tryOnce, were a try made with no tries left.
tryOnce_inclusive(R, error) ==
    IF R.tries >= 0
    THEN [R EXCEPT !.tries = @ - 1,
                   !.log = Append(@, Invocation(0, R.args)),
                   !.ret = Pending]
    ELSE [R EXCEPT !.ret = Rejected(error)]

\* tryOnce, were the number of tries left as it is.
tryOnce_undecremented(R, error) ==
    IF R.tries > 0
    THEN [R EXCEPT !.log = Append(@, Invocation(0, R.args)),
                   !.ret = Pending]
    ELSE [R EXCEPT !.ret = Rejected(error)]

\* tryOnce(error) in the execution R
tryOnce(R, error) ==
    IF R.tries > 0
    THEN [R EXCEPT !.tries = @ - 1,
                   !.log = Append(@, Invocation(0, R.args)),
                   !.ret = Pending]
    ELSE [R EXCEPT !.ret = Rejected(error)]

\* The retry template, were the first try made whatever the number of tries.
tryTemplate_eager(all) ==
    [args |-> SubSeq(all, 1, Len(all) - 1),
     log |-> <<Invocation(0, SubSeq(all, 1, Len(all) - 1))>>, ret |-> Pending,
     tries |-> all[Len(all)].val - 1, budget |-> all[Len(all)].val, all |-> all]

\* The retry template, were the number of tries left in args.
tryTemplate_unpopped(all) ==
    tryOnce([args |-> all, log |-> <<>>, ret |-> Pending,
             tries |-> all[Len(all)].val, budget |-> all[Len(all)].val,
             all |-> all], Undefined)

\* The template of the retry composite run with the arguments all, a number
\* of tries the last of them: tries = args.pop(), then tryOnce().
tryTemplate(all) ==
    tryOnce([args |-> SubSeq(all, 1, Len(all) - 1), log |-> <<>>, ret |-> Pending,
             tries |-> all[Len(all)].val, budget |-> all[Len(all)].val,
             all |-> all], Undefined)

\* catchTryOnce, were tryOnce the handler of a success as well.
catchTryOnce_always(R, out) ==
    tryOnce([R EXCEPT !.log = Settle(@, out)], out.val)

\* task.do.apply(task, args).catch(tryOnce) once the try has settled with out.
catchTryOnce(R, out) ==
    IF out.st = "ok"
    THEN [R EXCEPT !.log = Settle(@, out), !.ret = Resolved(out.val)]
    ELSE tryOnce([R EXCEPT !.log = Settle(@, out)], out.val)

\* Task.try(name, template)
TryInit ==
    /\ TaskInit
    /\ tasks = TryTemplate
    /\ supplied = NotSupplied

\* do(...args, tries) on a retry composite
TryDo ==
    /\ nexec < MaxRuns
    /\ tasks = TryTemplate
    /\ \E as \in TryArgs, n \in Budgets :
         LET e == nexec + 1
             end == IF typeof(n) = "number" THEN [kind |-> "promise", val |-> "none"]
                    ELSE [kind |-> "throw", val |-> TryError]
         IN
         /\ Commit(doTask(Core, e, <<>>, end))
         /\ retp' = [retp EXCEPT ![e] = (typeof(n) = "number")]
         /\ nexec' = e
         /\ first' = end
         /\ last' = Op("do", e, NoSignal, Num(0), "none")
         /\ run' = [run EXCEPT ![e] = IF typeof(n) = "number"
                                      THEN tryTemplate(Append(as, n))
                                      ELSE Thrown(as, Append(as, n))]
         /\ UNCHANGED <<tasks, supplied>>

\* The Promise of the outstanding try settles and its handlers run.
TryDone ==
    \E e \in 1..nexec, v \in Values :
        /\ tasks = TryTemplate
        /\ Running(e)
        /\ run' = [run EXCEPT ![e] = catchTryOnce(run[e], Ok(v))]
        /\ last' = Op("element", e, NoSignal, Num(0), "none")
        /\ UNCHANGED <<_cancel, _timeout, fut, timer, retp, first, nexec, tasks, supplied>>

TryFailed ==
    \E e \in 1..nexec, r \in Values :
        /\ tasks = TryTemplate
        /\ Running(e)
        /\ run' = [run EXCEPT ![e] = catchTryOnce(run[e], Failed(r))]
        /\ last' = Op("element", e, NoSignal, Num(0), "none")
        /\ UNCHANGED <<_cancel, _timeout, fut, timer, retp, first, nexec, tasks, supplied>>

TryNext ==
    \/ TryDo
    \/ TryDone
    \/ TryFailed
    \/ RetSettled

TrySpec == TryInit /\ [][TryNext]_vars

\* Every try settles in the end, and the handlers of a settled Promise run.
FairTrySpec ==
    /\ TrySpec
    /\ WF_vars(TryDone \/ TryFailed)
    /\ WF_vars(RetSettled)

\* ---------------------------------------------------------------- delay
\* The last argument of do(): the milliseconds to wait, or not a number.
DelayInputs == {Num(0), Num(1), NonNum("string")}

DelayError == "Last argument for Task#do() must be a number specifying the milliseconds to wait after which the task is to be executed."

\* What a template that ends without a return statement hands to Task#do.
ReturnedUndefined == [state |-> "undefined", val |-> "none"]

\* The delay template, were the Task executed at once.
delayTemplate_immediate(all) ==
    [args |-> SubSeq(all, 1, Len(all) - 1),
     log |-> <<Invocation(0, SubSeq(all, 1, Len(all) - 1))>>,
     ret |-> ReturnedUndefined, all |-> all, wait |-> FALSE]

\* The template of the delay composite run with the arguments all, a number
\* of milliseconds the last of them: setTimeout(..., delay) and no return.
delayTemplate(all) ==
    [args |-> SubSeq(all, 1, Len(all) - 1), log |-> <<>>,
     ret |-> ReturnedUndefined, all |-> all, wait |-> TRUE]

\* The callback of setTimeout: task.do.apply(task, args) on a new Task.
elapsed(R) == [R EXCEPT !.wait = FALSE, !.log = <<Invocation(0, R.args)>>]

\* Task.delay(name, template)
DelayInit ==
    /\ TaskInit
    /\ tasks = DelayTemplate
    /\ supplied = NotSupplied

\* do(...args, delay) on a delay composite
DelayDo ==
    /\ nexec < MaxExec
    /\ tasks = DelayTemplate
    /\ \E as \in TryArgs, d \in DelayInputs :
         LET e == nexec + 1
             end == IF typeof(d) = "number" THEN [kind |-> "undefined", val |-> "none"]
                    ELSE [kind |-> "throw", val |-> DelayError]
         IN
         /\ Commit(doTask(Core, e, <<>>, end))
         /\ nexec' = e
         /\ first' = end
         /\ last' = Op("do", e, NoSignal, Num(0), "none")
         /\ run' = [run EXCEPT ![e] = IF typeof(d) = "number"
                                      THEN delayTemplate(Append(as, d))
                                      ELSE Thrown(as, Append(as, d))]
         /\ UNCHANGED <<retp, tasks, supplied>>

\* The delay of execution e elapses.
DelayElapsed ==
    \E e \in 1..nexec :
        /\ tasks = DelayTemplate
        /\ run[e].ret = ReturnedUndefined
        /\ run[e].wait
        /\ run' = [run EXCEPT ![e] = elapsed(run[e])]
        /\ last' = Op("elapsed", e, NoSignal, Num(0), "none")
        /\ UNCHANGED <<_cancel, _timeout, fut, timer, retp, first, nexec, tasks, supplied>>

\* The Promise of the delayed Task resolves: .then(done).
DelayedDone ==
    \E e \in 1..nexec, v \in Values :
        /\ tasks = DelayTemplate
        /\ Running(e)
        /\ Commit(_resolve(Core, e, v))
        /\ run' = [run EXCEPT ![e].log = Settle(@, Ok(v))]
        /\ last' = Op("element", e, NoSignal, Num(0), "none")
        /\ UNCHANGED <<retp, first, nexec, tasks, supplied>>

\* The Promise of the delayed Task rejects: .catch(failed).
DelayedFailed ==
    \E e \in 1..nexec, r \in Values :
        /\ tasks = DelayTemplate
        /\ Running(e)
        /\ Commit(_reject(Core, e, r))
        /\ run' = [run EXCEPT ![e].log = Settle(@, Failed(r))]
        /\ last' = Op("element", e, NoSignal, Num(0), "none")
        /\ UNCHANGED <<retp, first, nexec, tasks, supplied>>

DelayNext ==
    \/ DelayDo
    \/ DelayElapsed
    \/ DelayedDone
    \/ DelayedFailed

DelaySpec == DelayInit /\ [][DelayNext]_vars

\* ------------------------------------- parallel, map, retry or delay
\* One composite, of any of the four kinds.
CompInit ==
    /\ TaskInit
    /\ tasks \in {TaskArray, MapTemplate, TryTemplate, DelayTemplate}
    /\ supplied = IF tasks = TaskArray THEN Supplied("parallel", TaskArray) ELSE NotSupplied

CompNext ==
    \/ ParNext
    \/ TryNext
    \/ DelayNext

CompSpec == CompInit /\ [][CompNext]_vars

\* --------------------------------------------------------- constructors
\* The longest array handed to Task.sequence / Task.parallel.
MaxElems == 2

\* A value handed to a constructor: its typeof, whether it is an array,
\* whether it is a Task, and the items of an array.
JsValue(t) == [type |-> t, isArray |-> FALSE, isTask |-> FALSE, val |-> <<>>]
JsTask == [type |-> "object", isArray |-> FALSE, isTask |-> TRUE, val |-> <<>>]
JsArray(items) == [type |-> "object", isArray |-> TRUE, isTask |-> FALSE, val |-> items]

NameInputs == {JsValue("string"), JsValue("number"), JsValue("undefined")}
ElemInputs == {JsValue("function"), JsTask, JsValue("number")}
ArrayInputs == UNION {{JsArray(items) : items \in [1..n -> ElemInputs]} : n \in 0..MaxElems}
SecondInputs ==
    {JsValue("function"), JsTask, JsValue("number"), JsValue("undefined"),
     JsValue("object"), JsValue("string")} \cup ArrayInputs

Throws(message) == [thrown |-> TRUE, error |-> message, closure |-> <<>>]
NewTask(closure) == [thrown |-> FALSE, error |-> "none", closure |-> closure]

\* task instanceof Task, or typeof task === 'function'
TaskOrTemplate(x) == x.isTask \/ typeof(x) = "function"

\* Task.create(name, template)
create(name, template) ==
    IF typeof(name) # "string" THEN Throws("name must be a string")
    ELSE IF typeof(template) # "function" THEN Throws("template must be a function")
    ELSE NewTask(<<>>)

\* Task.sequence, were the items of the array not looked at.
sequence_unchecked(name, ts) ==
    IF typeof(name) # "string" THEN Throws("Task name must be a string.")
    ELSE IF ~ts.isArray
    THEN Throws("The second argument should be an array of Tasks/templates.")
    ELSE NewTask([i \in 1..Len(ts.val) |-> i])

\* Task.sequence(name, tasks)
sequence(name, ts) ==
    IF typeof(name) # "string" THEN Throws("Task name must be a string.")
    ELSE IF ~ts.isArray
    THEN Throws("The second argument should be an array of Tasks/templates.")
    ELSE IF \E i \in 1..Len(ts.val) : ~TaskOrTemplate(ts.val[i])
    THEN Throws("tasks Array item must either be a Task or a template.")
    ELSE NewTask([i \in 1..Len(ts.val) |-> i])

\* Task.parallel(name, tasks)
parallel(name, ts) ==
    IF typeof(name) # "string" THEN Throws("Task name must be a string.")
    ELSE IF ~ts.isArray
    THEN Throws("The second argument should be an array of Tasks/templates.")
    ELSE IF \E i \in 1..Len(ts.val) : ~TaskOrTemplate(ts.val[i])
    THEN Throws("tasks Array item must either be a Task or a template.")
    ELSE NewTask([i \in 1..Len(ts.val) |-> i])

\* Task.try(name, template)
tryTask(name, template) ==
    IF typeof(name) # "string" THEN Throws("Task name must be a string.")
    ELSE IF typeof(template) # "function" THEN Throws("Task template must be a function.")
    ELSE NewTask(TryTemplate)

\* Task.map(name, template)
map(name, template) ==
    IF typeof(name) # "string" THEN Throws("Task name must be a string.")
    ELSE IF typeof(template) # "function" THEN Throws("Task template must be a function.")
    ELSE NewTask(MapTemplate)

\* Task.delay(name, template)
delay(name, template) ==
    IF typeof(name) # "string" THEN Throws("Task name must be a string.")
    ELSE IF typeof(template) # "function" THEN Throws("Task template must be a function.")
    ELSE NewTask(DelayTemplate)

\* A call of a constructor, its arguments and what came of it.
Call(ctor, name, arg, made) ==
    [op |-> ctor, e |-> 0, sig |-> NoSignal, ms |-> Num(0),
     ret |-> IF made.thrown THEN "throw" ELSE "Task",
     name |-> name, arg |-> arg, error |-> made.error]

Create ==
    \E name \in NameInputs, template \in SecondInputs :
        LET made == create(name, template) IN
        /\ last' = Call("create", name, template, made)
        /\ tasks' = made.closure
        /\ UNCHANGED <<_cancel, _timeout, fut, timer, retp, first, nexec, run, supplied>>

Sequence ==
    \E name \in NameInputs, ts \in SecondInputs :
        LET made == sequence(name, ts) IN
        /\ last' = Call("sequence", name, ts, made)
        /\ tasks' = made.closure
        /\ UNCHANGED <<_cancel, _timeout, fut, timer, retp, first, nexec, run, supplied>>

Parallel ==
    \E name \in NameInputs, ts \in SecondInputs :
        LET made == parallel(name, ts) IN
        /\ last' = Call("parallel", name, ts, made)
        /\ tasks' = made.closure
        /\ UNCHANGED <<_cancel, _timeout, fut, timer, retp, first, nexec, run, supplied>>

Try ==
    \E name \in NameInputs, template \in SecondInputs :
        LET made == tryTask(name, template) IN
        /\ last' = Call("try", name, template, made)
        /\ tasks' = made.closure
        /\ UNCHANGED <<_cancel, _timeout, fut, timer, retp, first, nexec, run, supplied>>

Map ==
    \E name \in NameInputs, template \in SecondInputs :
        LET made == map(name, template) IN
        /\ last' = Call("map", name, template, made)
        /\ tasks' = made.closure
        /\ UNCHANGED <<_cancel, _timeout, fut, timer, retp, first, nexec, run, supplied>>

Delay ==
    \E name \in NameInputs, template \in SecondInputs :
        LET made == delay(name, template) IN
        /\ last' = Call("delay", name, template, made)
        /\ tasks' = made.closure
        /\ UNCHANGED <<_cancel, _timeout, fut, timer, retp, first, nexec, run, supplied>>

CtorNext ==
    \/ Create
    \/ Sequence
    \/ Parallel
    \/ Try
    \/ Map
    \/ Delay

CtorSpec == Init /\ [][CtorNext]_vars

\* ------------------------------------------- cancel and timeout on composites
\* A sequence composite on which cancel() and timeout() are called as well,
\* and whose timers expire.
SeqAbortNext ==
    \/ SeqNext
    \/ Cancel
    \/ Timeout
    \/ Expire

SeqAbortSpec == SeqInit /\ [][SeqAbortNext]_vars

\* ------------------------------------------------- map beside parallel
\* A map composite and, beside it, a parallel composite over as many Tasks
\* made from the same template as the array has items, executed with the
\* one-element groups [a1]..[an].  Execution e is the map's, execution e + 1
\* the parallel's.  The two composites are two Task objects; their Promises
\* are fut[e] and fut[e + 1], and their _cancel and _timeout fields, which no
\* action of this specification reads, are kept in the same variables.

\* The items of the array: plain values and arrays.
PairItems == {Bare("a"), Arr(<<"b", "a">>)}
PairArrays == UNION {[1..n -> PairItems] : n \in 0..NTasks}

\* n Tasks made from the template of the map composite T.
SameTemplate(T, n) == [i \in 1..n |-> T[1]]
\* The argument groups [a1]..[an].
OneElementGroups(items) == [i \in 1..Len(items) |-> Arr(<<items[i]>>)]

PairInit ==
    /\ TaskInit
    /\ tasks = MapTemplate
    /\ supplied = NotSupplied

\* map.do([a1..an]) and parallel.do([a1], .., [an])
PairDo ==
    /\ nexec + 2 <= MaxExec
    /\ \E items \in PairArrays :
         LET e == nexec + 1
             promise == [kind |-> "promise", val |-> "none"]
         IN
         /\ Commit(doTask(doTask(Core, e, <<>>, promise), e + 1, <<>>, promise))
         /\ retp' = [retp EXCEPT ![e] = TRUE, ![e + 1] = TRUE]
         /\ nexec' = e + 1
         /\ first' = promise
         /\ last' = Op("do", e, NoSignal, Num(0), "none")
         /\ run' = [run EXCEPT
                       ![e] = mapTemplate(tasks, Arr(items)),
                       ![e + 1] = parallelTemplate(SameTemplate(tasks, Len(items)),
                                                   OneElementGroups(items))]
         /\ UNCHANGED <<tasks, supplied>>

\* The template's i-th invocation succeeds, under the map and under the
\* parallel composite alike.
PairElementDone ==
    \E e \in 1..nexec : \E i \in 1..Len(run[e].log) :
        /\ e % 2 = 1
        /\ run[e].log[i].out.st = "pending"
        /\ run' = [run EXCEPT ![e] = allSettled(run[e], i, Ok(ValueAt(i))),
                              ![e + 1] = allSettled(run[e + 1], i, Ok(ValueAt(i)))]
        /\ last' = Op("element", e, NoSignal, Num(0), "none")
        /\ UNCHANGED <<_cancel, _timeout, fut, timer, retp, first, nexec, tasks, supplied>>

\* The template's i-th invocation fails, under both composites alike.
PairElementFailed ==
    \E e \in 1..nexec : \E i \in 1..Len(run[e].log) :
        /\ e % 2 = 1
        /\ run[e].log[i].out.st = "pending"
        /\ run' = [run EXCEPT ![e] = allSettled(run[e], i, Failed(ReasonAt(i))),
                              ![e + 1] = allSettled(run[e + 1], i, Failed(ReasonAt(i)))]
        /\ last' = Op("element", e, NoSignal, Num(0), "none")
        /\ UNCHANGED <<_cancel, _timeout, fut, timer, retp, first, nexec, tasks, supplied>>

PairNext ==
    \/ PairDo
    \/ PairElementDone
    \/ PairElementFailed
    \/ RetSettled

PairSpec == PairInit /\ [][PairNext]_vars

\* A delay composite on which cancel() is called as well.
DelayCancelNext ==
    \/ DelayNext
    \/ Cancel

DelayCancelSpec == DelayInit /\ [][DelayCancelNext]_vars

\* ------------------------------------------- sequence or parallel
\* One composite made from an array of Tasks, a sequence or a parallel one.
ArrayInit ==
    /\ TaskInit
    /\ tasks = TaskArray
    /\ supplied \in {Supplied("sequence", TaskArray), Supplied("parallel", TaskArray)}

ArrayNext ==
    \/ supplied.ctor = "sequence" /\ SeqDo
    \/ supplied.ctor = "sequence" /\ SeqElementDone
    \/ supplied.ctor = "sequence" /\ SeqElementFailed
    \/ supplied.ctor = "parallel" /\ ParDo
    \/ supplied.ctor = "parallel" /\ ParElementDone
    \/ supplied.ctor = "parallel" /\ ParElementFailed
    \/ RetSettled

ArraySpec == ArrayInit /\ [][ArrayNext]_vars

\* do(tries) on a retry composite that was executed before, with one try or
\* with none.
TryAgain ==
    /\ nexec >= MaxRuns
    /\ nexec < MaxExec
    /\ tasks = TryTemplate
    /\ \E n \in {Num(0), Num(1)} :
         LET e == nexec + 1 IN
         /\ Commit(doTask(Core, e, <<>>, [kind |-> "promise", val |-> "none"]))
         /\ retp' = [retp EXCEPT ![e] = TRUE]
         /\ nexec' = e
         /\ first' = [kind |-> "promise", val |-> "none"]
         /\ last' = Op("do", e, NoSignal, Num(0), "none")
         /\ run' = [run EXCEPT ![e] = tryTemplate(<<n>>)]
         /\ UNCHANGED <<tasks, supplied>>

\* A retry composite on which cancel() and timeout() are called as well, and
\* whose timers expire.
TryAbortNext ==
    \/ TryNext
    \/ TryAgain
    \/ Cancel
    \/ Timeout
    \/ Expire

TryAbortSpec == TryInit /\ [][TryAbortNext]_vars

\* ------------------------------------- the direct forms of the older task.js
\* Task.sequence(tasks, ...args) and Task.try(task, tries, ...args) of the
\* older task.js run the Tasks at once and return a Promise.  Here a direct
\* call is made beside the first execution of the composite made from the
\* same elements, with the same arguments, and each Task behaves alike under
\* both.  Execution e is the composite's; run[e + 1] is what the direct call
\* did and fut[e + 1] the Promise it returned.  The direct sequence shifts
\* the array it is handed, the caller's own.

\* next() of the direct Task.sequence, called with arguments as.
directNext(T, R, as) ==
    IF Len(T) > 0
    THEN [tasks |-> Tail(T),
          run |-> [R EXCEPT !.log = Append(@, Invocation(Head(T), as)),
                            !.ret = Pending]]
    ELSE [tasks |-> T, run |-> [R EXCEPT !.ret = PromiseResolve(as)]]

\* Task.sequence(tasks, ...firstTaskArgs): next.apply(null, firstTaskArgs).
directSequence(T, as) ==
    directNext(T, [args |-> as, log |-> <<>>, ret |-> Pending], as)

\* task.do(...).then(next) of the direct Task.sequence.
directThenNext(T, R, out) ==
    IF out.st = "ok"
    THEN directNext(T, [R EXCEPT !.log = Settle(@, out)], <<out.val>>)
    ELSE [tasks |-> T,
          run |-> [R EXCEPT !.log = Settle(@, out), !.ret = Rejected(out.val)]]

\* directTryOnce, were failed() called with no reason.
directTryOnce_bare(R, error) ==
    IF R.tries > 0
    THEN [R EXCEPT !.tries = @ - 1,
                   !.log = Append(@, Invocation(0, R.args)),
                   !.ret = Pending]
    ELSE [R EXCEPT !.ret = Rejected(Undefined)]

\* tryOnce(error) of the direct Task.try: another try, or failed(error).
directTryOnce(R, error) ==
    IF R.tries > 0
    THEN [R EXCEPT !.tries = @ - 1,
                   !.log = Append(@, Invocation(0, R.args)),
                   !.ret = Pending]
    ELSE [R EXCEPT !.ret = Rejected(error)]

\* Task.try(task, tries, ...taskArgs): throws unless tries is a number, else
\* Task.do of a template that calls tryOnce().
directTry(n, as) ==
    IF typeof(n) # "number"
    THEN Thrown(as, <<n>> \o as)
    ELSE directTryOnce([args |-> as, log |-> <<>>, ret |-> Pending,
                        tries |-> n.val, budget |-> n.val, all |-> <<n>> \o as],
                       Undefined)

\* task.do(...).then(done).catch(tryOnce) of the direct Task.try.
directThenDone(R, out) ==
    IF out.st = "ok"
    THEN [R EXCEPT !.log = Settle(@, out), !.ret = Resolved(out.val)]
    ELSE directTryOnce([R EXCEPT !.log = Settle(@, out)], out.val)

\* The Promise a direct call returned: none when the call threw.
Returned(R) == IF R.ret.state = "none" THEN NotStarted ELSE R.ret

DirectInit ==
    /\ TaskInit
    /\ tasks \in {TaskArray, TryTemplate}
    /\ supplied = IF tasks = TaskArray THEN Supplied("sequence", TaskArray)
                  ELSE NotSupplied

\* composite.do(...args) for the first time, and Task.sequence(tasks, ...args)
SeqBothDo ==
    /\ nexec = 0
    /\ supplied.ctor = "sequence"
    /\ \E as \in ArgLists :
         LET e == nexec + 1
             n == sequenceTemplate(tasks, as)
             d == directSequence(supplied.array, as)
             S == doTask(Core, e, <<>>, [kind |-> "promise", val |-> "none"])
         IN
         /\ Commit([S EXCEPT !.fut[e + 1] = Returned(d.run)])
         /\ retp' = [retp EXCEPT ![e] = TRUE]
         /\ nexec' = e + 1
         /\ first' = [kind |-> "promise", val |-> "none"]
         /\ last' = Op("do", e, NoSignal, Num(0), "none")
         /\ tasks' = n.tasks
         /\ supplied' = [supplied EXCEPT !.array = d.tasks]
         /\ run' = [run EXCEPT ![e] = n.run, ![e + 1] = d.run]

\* The Task outstanding under both forms succeeds with v, or with no value.
SeqBothElementDone ==
    \E e \in 1..nexec, v \in Values \cup {Undefined} :
        /\ supplied.ctor = "sequence"
        /\ e % 2 = 1
        /\ Running(e)
        /\ Running(e + 1)
        /\ LET n == thenNext(tasks, run[e], Ok(v))
               d == directThenNext(supplied.array, run[e + 1], Ok(v))
           IN
           /\ tasks' = n.tasks
           /\ supplied' = [supplied EXCEPT !.array = d.tasks]
           /\ run' = [run EXCEPT ![e] = n.run, ![e + 1] = d.run]
           /\ fut' = [fut EXCEPT ![e + 1] = Returned(d.run)]
        /\ last' = Op("element", e, NoSignal, Num(0), "none")
        /\ UNCHANGED <<_cancel, _timeout, timer, retp, first, nexec>>

\* The Task outstanding under both forms fails with r.
SeqBothElementFailed ==
    \E e \in 1..nexec, r \in Values :
        /\ supplied.ctor = "sequence"
        /\ e % 2 = 1
        /\ Running(e)
        /\ Running(e + 1)
        /\ LET n == thenNext(tasks, run[e], Failed(r))
               d == directThenNext(supplied.array, run[e + 1], Failed(r))
           IN
           /\ tasks' = n.tasks
           /\ supplied' = [supplied EXCEPT !.array = d.tasks]
           /\ run' = [run EXCEPT ![e] = n.run, ![e + 1] = d.run]
           /\ fut' = [fut EXCEPT ![e + 1] = Returned(d.run)]
        /\ last' = Op("element", e, NoSignal, Num(0), "none")
        /\ UNCHANGED <<_cancel, _timeout, timer, retp, first, nexec>>

\* composite.do(...args, tries) for the first time, and
\* Task.try(task, tries, ...args)
TryBothDo ==
    /\ nexec = 0
    /\ tasks = TryTemplate
    /\ \E as \in TryArgs, n \in Budgets :
         LET e == nexec + 1
             end == IF typeof(n) = "number" THEN [kind |-> "promise", val |-> "none"]
                    ELSE [kind |-> "throw", val |-> TryError]
             d == directTry(n, as)
             S == doTask(Core, e, <<>>, end)
         IN
         /\ Commit([S EXCEPT !.fut[e + 1] = Returned(d)])
         /\ retp' = [retp EXCEPT ![e] = (typeof(n) = "number")]
         /\ nexec' = e + 1
         /\ first' = end
         /\ last' = Op("do", e, NoSignal, Num(0), "none")
         /\ run' = [run EXCEPT ![e] = IF typeof(n) = "number"
                                      THEN tryTemplate(Append(as, n))
                                      ELSE Thrown(as, Append(as, n)),
                               ![e + 1] = d]
         /\ UNCHANGED <<tasks, supplied>>

\* The try outstanding under both forms succeeds with v.
TryBothDone ==
    \E e \in 1..nexec, v \in Values :
        /\ tasks = TryTemplate
        /\ e % 2 = 1
        /\ Running(e)
        /\ Running(e + 1)
        /\ LET d == directThenDone(run[e + 1], Ok(v)) IN
           /\ run' = [run EXCEPT ![e] = catchTryOnce(run[e], Ok(v)), ![e + 1] = d]
           /\ fut' = [fut EXCEPT ![e + 1] = Returned(d)]
        /\ last' = Op("element", e, NoSignal, Num(0), "none")
        /\ UNCHANGED <<_cancel, _timeout, timer, retp, first, nexec, tasks, supplied>>

\* The try outstanding under both forms fails with r.
TryBothFailed ==
    \E e \in 1..nexec, r \in Values :
        /\ tasks = TryTemplate
        /\ e % 2 = 1
        /\ Running(e)
        /\ Running(e + 1)
        /\ LET d == directThenDone(run[e + 1], Failed(r)) IN
           /\ run' = [run EXCEPT ![e] = catchTryOnce(run[e], Failed(r)), ![e + 1] = d]
           /\ fut' = [fut EXCEPT ![e + 1] = Returned(d)]
        /\ last' = Op("element", e, NoSignal, Num(0), "none")
        /\ UNCHANGED <<_cancel, _timeout, timer, retp, first, nexec, tasks, supplied>>

DirectNext ==
    \/ SeqBothDo
    \/ SeqBothElementDone
    \/ SeqBothElementFailed
    \/ TryBothDo
    \/ TryBothDone
    \/ TryBothFailed
    \/ RetSettled

DirectSpec == DirectInit /\ [][DirectNext]_vars

\* ------------------------------------------------- properties: sequence
Started == 1..nexec
Log(e) == run[e].log

\* C11: an execution of a sequence invokes e1 with the arguments of do() and
\* each following element with the success value of the one before it, in
\* the order of the array, and when it succeeds it does so with the success
\* value of the last element.
C11_SequenceThreads ==
    \A e \in Started :
        /\ \A i \in 1..Len(Log(e)) :
              /\ Log(e)[i].el = i
              /\ Log(e)[i].args = IF i = 1 THEN run[e].args
                                  ELSE <<Log(e)[i - 1].out.val>>
        /\ fut[e].state = "resolved"
              => /\ Len(Log(e)) = NTasks
                 /\ Log(e)[NTasks].out = Ok(fut[e].val)

\* C12: when an element of an execution fails with r, no further element is
\* invoked in that execution, the Promise of the template is rejected with r
\* itself, and the composite's future is rejected with r once that Promise
\* has been handed on (and is pending until then).
C12_SequenceShortCircuits ==
    \A e \in Started : \A k \in 1..Len(Log(e)) :
        Log(e)[k].out.st = "failed"
            => /\ k = Len(Log(e))
               /\ run[e].ret = Rejected(Log(e)[k].out.val)
               /\ fut[e] = IF retp[e] THEN Pending
                           ELSE Rejected(Log(e)[k].out.val)

\* An element failed while later elements remained, and the composite's
\* future was rejected with the element's reason.
C12_Witness ==
    \E e \in Started :
        /\ Log(e) # <<>>
        /\ Log(e)[Len(Log(e))].out.st = "failed"
        /\ tasks # <<>>
        /\ fut[e] = Rejected(Log(e)[Len(Log(e))].out.val)

\* C13: in an execution of a sequence an element other than e1 is invoked
\* only right after the element before it in the array succeeded in that
\* execution, and only the last element invoked can be outstanding.
C13_SequenceOrdered ==
    \A e \in Started : \A k \in 1..Len(Log(e)) :
        /\ Log(e)[k].el > 1
              => /\ k > 1
                 /\ Log(e)[k - 1].el = Log(e)[k].el - 1
                 /\ Log(e)[k - 1].out.st = "ok"
        /\ k < Len(Log(e)) => Log(e)[k].out.st # "pending"

\* C14: a do() issued on a sequence when every earlier execution of it has
\* settled invokes e1 with the arguments of that do().
C14_SequenceRestarts ==
    [][(last'.op = "do" /\ \A f \in Started : Settled(f))
        => /\ run'[nexec'].log # <<>>
           /\ run'[nexec'].log[1].el = 1
           /\ run'[nexec'].log[1].args = run'[nexec'].args]_vars

\* ------------------------------------------- properties: parallel and map
IsParallel == tasks = TaskArray
Threw(e) == run[e].ret.state = "none"
AnyFailed(L) == \E k \in 1..Len(L) : L[k].out.st = "failed"

\* C15: when every element of an execution of a parallel composite has
\* succeeded, Promise.all is resolved with the array whose i-th entry is the
\* value of the i-th element, whatever the order of completion, and the
\* composite's future is resolved with that array once it is handed on.
C15_ParallelPositional ==
    \A e \in Started :
        (IsParallel /\ AllOk(Log(e)))
            => /\ Len(Log(e)) = NTasks
               /\ run[e].ret.state = "resolved"
               /\ run[e].ret.val = [i \in 1..NTasks |-> Log(e)[i].out.val]
               /\ fut[e].state = IF retp[e] THEN "pending" ELSE "resolved"
               /\ ~retp[e] => fut[e].val = run[e].ret.val

\* A parallel composite whose elements all succeeded has resolved its future
\* with their values in the order of the array.
C15_Witness ==
    \E e \in Started :
        /\ IsParallel
        /\ AllOk(Log(e))
        /\ fut[e].state = "resolved"
        /\ fut[e].val = [i \in 1..NTasks |-> ValueAt(i)]

\* C16: the first failure of an element of a parallel composite rejects
\* Promise.all at once with that element's reason, outstanding elements or
\* not; the step leaves the other elements as they were, and once rejected
\* the Promise keeps its reason whatever the other elements do later, and the
\* composite's future is rejected with the same reason.
C16_ParallelFirstFailure ==
    [][IsParallel =>
        \A e \in Started : \A i \in 1..Len(Log(e)) :
          /\ (~AnyFailed(Log(e)) /\ run'[e].log[i].out.st = "failed")
                => /\ run'[e].ret.state = "rejected"
                   /\ run'[e].ret.val = run'[e].log[i].out.val
                   /\ \A j \in 1..Len(Log(e)) :
                         j # i => run'[e].log[j] = run[e].log[j]
          /\ run[e].ret.state = "rejected"
                => /\ run'[e].ret.state = "rejected"
                   /\ run'[e].ret.val = run[e].ret.val
                   /\ fut'[e].state = IF retp'[e] THEN "pending" ELSE "rejected"
                   /\ ~retp'[e] => fut'[e].val = run[e].ret.val]_vars

\* The composite's future is rejected with the reason of one element while
\* the failure of another element, with a different reason, is on record.
C16_Witness ==
    \E e \in Started :
        /\ IsParallel
        /\ fut[e].state = "rejected"
        /\ \E i, j \in 1..Len(Log(e)) :
              /\ i # j
              /\ Log(e)[i].out = Failed(fut[e].val)
              /\ Log(e)[j].out.st = "failed"
              /\ Log(e)[j].out.val # fut[e].val

\* C17: the step that executes a parallel or map composite invokes every
\* element (every Task of the array, every item of the argument) before any
\* completion is handled, and no later step invokes an element.
C17_AllInvokedAtOnce ==
    /\ [](\A e \in Started :
            ~Threw(e) => Len(Log(e)) = IF IsParallel THEN NTasks
                                       ELSE Len(run[e].args[1].val))
    /\ [][/\ \A e \in Started : Len(run'[e].log) = Len(run[e].log)
          /\ last'.op = "do" =>
                \A k \in 1..Len(run'[nexec'].log) :
                    run'[nexec'].log[k].out.st = "pending"]_vars

\* A do() has just invoked two or more elements, none of them settled.
C17_Witness ==
    \E e \in Started :
        /\ last.op = "do"
        /\ Len(Log(e)) >= 2
        /\ \A k \in 1..Len(Log(e)) : Log(e)[k].out.st = "pending"

\* C18: a parallel composite hands element i the i-th argument of do() and
\* nothing else: spread when it is an array, as the single argument when it
\* is not, and no argument when do() has no i-th argument.
C18_ParallelArgGroups ==
    \A e \in Started :
        IsParallel =>
            \A i \in 1..Len(Log(e)) :
                Log(e)[i].args =
                    IF i > Len(run[e].args) THEN <<>>
                    ELSE IF run[e].args[i].isArray THEN run[e].args[i].val
                    ELSE <<run[e].args[i].val>>

\* do('a', ['b', 'a']) invoked the first element with 'a' and the second
\* with 'b', 'a'.
C18_Witness ==
    \E e \in Started :
        /\ IsParallel
        /\ run[e].args = <<Bare("a"), Arr(<<"b", "a">>)>>
        /\ Log(e)[1].args = <<"a">>
        /\ Log(e)[2].args = <<"b", "a">>

\* ------------------------------------------------------ properties: retry
Tried(e) == ~Threw(e)

\* C19: in an execution of a retry composite with N tries, a try that
\* succeeds is the last one made: it is at most the N-th, every try before it
\* failed, the Promise of the template is resolved with its value, and so is
\* the composite's future once that Promise is handed on.
C19_RetrySucceeds ==
    \A e \in Started : \A k \in 1..Len(Log(e)) :
        Log(e)[k].out.st = "ok"
            => /\ k = Len(Log(e))
               /\ k <= run[e].budget
               /\ \A j \in 1..(k - 1) : Log(e)[j].out.st = "failed"
               /\ run[e].ret = Resolved(Log(e)[k].out.val)
               /\ fut[e] = IF retp[e] THEN Pending ELSE Resolved(Log(e)[k].out.val)

\* The second of three tries succeeded after the first failed, and the
\* composite's future is resolved with its value.
C19_Witness ==
    \E e \in Started :
        /\ Tried(e)
        /\ run[e].budget = 3
        /\ Len(Log(e)) = 2
        /\ Log(e)[1].out.st = "failed"
        /\ Log(e)[2].out.st = "ok"
        /\ fut[e] = Resolved(Log(e)[2].out.val)

\* C20: in an execution of a retry composite with N >= 1 tries at most N
\* tries are made, each after the one before it failed; when the N-th has
\* failed the Promise of the template is rejected with the reason of the N-th,
\* and so is the composite's future once that Promise is handed on; the
\* composite does not fail before.
C20_RetryExhausted ==
    \A e \in Started :
        (Tried(e) /\ run[e].budget >= 1)
            => /\ Len(Log(e)) <= run[e].budget
               /\ \A k \in 1..(Len(Log(e)) - 1) : Log(e)[k].out.st = "failed"
               /\ (Len(Log(e)) = run[e].budget /\ Log(e)[run[e].budget].out.st = "failed")
                     => /\ run[e].ret = Rejected(Log(e)[run[e].budget].out.val)
                        /\ fut[e] = IF retp[e] THEN Pending ELSE run[e].ret
               /\ run[e].ret.state = "rejected"
                     => /\ Len(Log(e)) = run[e].budget
                        /\ Log(e)[run[e].budget].out.st = "failed"

\* Two or more tries all failed, the first and the last with different
\* reasons, and the composite's future is rejected with the reason of the last.
C20_Witness ==
    \E e \in Started :
        /\ Tried(e)
        /\ run[e].budget >= 2
        /\ Len(Log(e)) = run[e].budget
        /\ fut[e] = Rejected(Log(e)[run[e].budget].out.val)
        /\ Log(e)[1].out.st = "failed"
        /\ Log(e)[1].out.val # fut[e].val

\* C21: an execution of a retry composite with 0 tries invokes the template
\* not once; the Promise of its template is rejected, and so is the
\* composite's future once that Promise is handed on.
C21_RetryZero ==
    \A e \in Started :
        (Tried(e) /\ run[e].budget = 0)
            => /\ Log(e) = <<>>
               /\ run[e].ret.state = "rejected"
               /\ fut[e].state = IF retp[e] THEN "pending" ELSE "rejected"

\* A retry composite run with 0 tries has its future rejected, no try made.
C21_Witness ==
    \E e \in Started :
        /\ Tried(e)
        /\ run[e].budget = 0
        /\ Log(e) = <<>>
        /\ fut[e].state = "rejected"

\* C22: every try of a retry composite is handed the arguments of do() but
\* the last, in their order, the same at every try; the number of tries is
\* not among them.
C22_RetrySameArgs ==
    \A e \in Started :
        Tried(e) =>
            \A k \in 1..Len(Log(e)) :
                /\ Len(Log(e)[k].args) = Len(run[e].all) - 1
                /\ \A i \in 1..Len(Log(e)[k].args) :
                      Log(e)[k].args[i] = run[e].all[i]

\* do('b', 'a', N) has made a second try, the first and the second with 'b', 'a'.
C22_Witness ==
    \E e \in Started :
        /\ Tried(e)
        /\ Len(run[e].all) = 3
        /\ Len(Log(e)) >= 2
        /\ Log(e)[1].args = <<"b", "a">>
        /\ Log(e)[2].args = <<"b", "a">>

\* -------------------------------------------------------- properties: map
IsMap == tasks = MapTemplate
Items(e) == run[e].args[1].val

\* C23: an execution of a map composite on an array invokes the template once
\* for each item, the i-th invocation with the i-th item alone; when every
\* invocation has succeeded (at once, for an empty array, no invocation made)
\* Promise.all is resolved with the array whose i-th entry is the value of the
\* i-th invocation, whatever the order of completion, and so is the
\* composite's future once that Promise is handed on.
C23_MapPositional ==
    \A e \in Started :
        (IsMap /\ ~Threw(e))
            => /\ Len(Log(e)) = Len(Items(e))
               /\ \A i \in 1..Len(Log(e)) : Log(e)[i].args = <<Items(e)[i]>>
               /\ AllOk(Log(e))
                     => /\ run[e].ret.state = "resolved"
                        /\ run[e].ret.val = Results(Log(e))
                        /\ fut[e].state = IF retp[e] THEN "pending" ELSE "resolved"
                        /\ ~retp[e] => fut[e].val = Results(Log(e))

\* A map composite run on ['a', 'b'] has resolved its future with the values
\* of the invocation on 'a' and of the invocation on 'b', in that order.
C23_Witness ==
    \E e \in Started :
        /\ IsMap
        /\ ~Threw(e)
        /\ Items(e) = <<"a", "b">>
        /\ fut[e].state = "resolved"
        /\ fut[e].val = <<ValueAt(1), ValueAt(2)>>

\* C24: the first failure of an invocation of a map composite rejects
\* Promise.all in that step with the invocation's reason, other invocations
\* outstanding or not; the Promise keeps that reason, and the composite's
\* future is rejected with it once the Promise is handed on.
C24_MapFirstFailure ==
    [][IsMap =>
        \A e \in Started : \A i \in 1..Len(Log(e)) :
          /\ (~AnyFailed(Log(e)) /\ run'[e].log[i].out.st = "failed")
                => /\ run'[e].ret.state = "rejected"
                   /\ run'[e].ret.val = run'[e].log[i].out.val
          /\ run[e].ret.state = "rejected"
                => /\ run'[e].ret = run[e].ret
                   /\ fut'[e].state = IF retp'[e] THEN "pending" ELSE "rejected"
                   /\ ~retp'[e] => fut'[e].val = run[e].ret.val]_vars

\* The future of a map composite is rejected with the reason of one invocation
\* while another invocation is still outstanding.
C24_Witness ==
    \E e \in Started :
        /\ IsMap
        /\ fut[e].state = "rejected"
        /\ \E i, j \in 1..Len(Log(e)) :
              /\ Log(e)[i].out = Failed(fut[e].val)
              /\ Log(e)[j].out.st = "pending"

\* ------------------------------------------------------ properties: delay
\* C26: the do() of a delay composite invokes nothing; while the delay of an
\* execution has not elapsed its template has not been invoked; it is invoked
\* at most once, with the arguments of do() but the last; and the composite's
\* future is pending until that invocation settles, resolved with its value
\* when it succeeded and rejected with its reason when it failed.
C26_DelayThenInvoke ==
    /\ [](\A e \in Started :
            ~Threw(e)
                => /\ run[e].wait <=> Log(e) = <<>>
                   /\ Len(Log(e)) <= 1
                   /\ \A k \in 1..Len(Log(e)) :
                         /\ Len(Log(e)[k].args) = Len(run[e].all) - 1
                         /\ \A i \in 1..Len(Log(e)[k].args) :
                               Log(e)[k].args[i] = run[e].all[i]
                   /\ fut[e] = IF Log(e) = <<>> \/ Log(e)[1].out.st = "pending"
                               THEN Pending
                               ELSE IF Log(e)[1].out.st = "ok"
                               THEN Resolved(Log(e)[1].out.val)
                               ELSE Rejected(Log(e)[1].out.val))
    /\ [][last'.op = "do" => run'[nexec'].log = <<>>]_vars

\* A delay composite run with 'b', 'a' and a delay has invoked its template
\* with 'b', 'a' after the delay, and its future carries the outcome.
C26_Witness ==
    \E e \in Started :
        /\ ~Threw(e)
        /\ ~run[e].wait
        /\ Log(e)[1].args = <<"b", "a">>
        /\ Log(e)[1].out.st = "ok"
        /\ fut[e] = Resolved(Log(e)[1].out.val)

\* ------------------------------------- properties: arguments of do()
\* The last argument of the do() of execution e.
LastArg(e) == run[e].all[Len(run[e].all)]

\* Execution e was handed arguments its composite cannot work with.
ShapeError(e) ==
    \/ IsMap /\ ~run[e].args[1].isArray
    \/ tasks \in {TryTemplate, DelayTemplate} /\ typeof(LastArg(e)) # "number"

\* C25: a do() on a map composite with a non-array, or on a retry or delay
\* composite whose last argument is not a number, returns a future, which is
\* rejected, and the template handed to Task.map, Task.try or Task.delay is
\* invoked neither by that do() nor later.
C25_ShapeErrorsReject ==
    \A e \in Started :
        ShapeError(e) => /\ fut[e].state = "rejected"
                         /\ Log(e) = <<>>

\* A delay composite run with a last argument that is not a number has its
\* future rejected with the error of the template, nothing invoked.
C25_Witness ==
    \E e \in Started :
        /\ tasks = DelayTemplate
        /\ ShapeError(e)
        /\ fut[e] = Rejected(DelayError)
        /\ Log(e) = <<>>

\* ----------------------------------------------- properties: constructors
Constructed == last.op \in {"create", "sequence", "parallel", "try", "map", "delay"}

\* C27: a call of create, sequence, parallel, try, map or delay with a name
\* that is not a string throws; so does a call of create, try, map or delay
\* with a template that is not a function, and a call of sequence or parallel
\* with a second argument that is not an array or that holds an item neither a
\* Task nor a function; a call that throws makes no Task.
C27_ConstructorsValidate ==
    Constructed =>
        /\ typeof(last.name) # "string" => last.ret = "throw"
        /\ (last.op \in {"create", "try", "map", "delay"}
              /\ typeof(last.arg) # "function") => last.ret = "throw"
        /\ (last.op \in {"sequence", "parallel"} /\ ~last.arg.isArray)
              => last.ret = "throw"
        /\ (last.op \in {"sequence", "parallel"} /\ last.arg.isArray
              /\ \E i \in 1..Len(last.arg.val) :
                    ~last.arg.val[i].isTask /\ last.arg.val[i].type # "function")
              => last.ret = "throw"
        /\ last.ret = "throw" => tasks = <<>>

\* Task.sequence was called with a string and an array holding a Task and a
\* number, and threw.
C27_Witness ==
    /\ last.op = "sequence"
    /\ typeof(last.name) = "string"
    /\ last.arg = JsArray(<<JsTask, JsValue("number")>>)
    /\ last.ret = "throw"

\* ------------------------------------------- properties: template outcomes
\* C28: do() always returns a future; when the first thing its template does
\* is to call done(v) the future is resolved with v, when it is to call
\* failed(r) the future is rejected with r, and when the template throws e
\* without having called a handle the future is rejected with e.
C28_SyncOutcome ==
    [][last'.op = "do"
        => /\ fut'[nexec'].state # "none"
           /\ first'.kind = "done" => fut'[nexec'] = Resolved(first'.val)
           /\ first'.kind = "failed" => fut'[nexec'] = Rejected(first'.val)
           /\ first'.kind = "throw" => fut'[nexec'] = Rejected(first'.val)]_vars

\* A template threw without calling a handle and the future of its execution
\* is rejected with what it threw.
C28_Witness ==
    /\ last.op = "do"
    /\ first.kind = "throw"
    /\ fut[nexec] = Rejected(first.val)

\* C29: when a template calls no handle and returns a plain value v other
\* than undefined the future is resolved with v; when the future a template
\* returned resolves with v (rejects with r) while the execution is pending,
\* the execution's future is resolved with v (rejected with r).
C29_ReturnedOutcome ==
    [][/\ (last'.op = "do" /\ first'.kind = "value")
            => fut'[nexec'] = Resolved(first'.val)
       /\ (last'.op = "retResolved" /\ fut[last'.e].state = "pending")
            => fut'[last'.e] = Resolved(last'.sig.val)
       /\ (last'.op = "retRejected" /\ fut[last'.e].state = "pending")
            => fut'[last'.e] = Rejected(last'.sig.val)]_vars

\* The future returned by the template of the latest execution, which called
\* no handle, has rejected, and the execution's future with the same reason.
C29_Witness ==
    /\ last.op = "retRejected"
    /\ last.e = nexec
    /\ first.kind = "promise"
    /\ fut[nexec] = Rejected(last.sig.val)

\* C30: an execution whose template called no handle and returned undefined
\* is pending when do() returns; the future of a pending execution that has
\* no returned future to wait for is settled only by a step that is a call of
\* its own done or failed, a call of cancel(), or the expiry of a timer.
C30_PendingUntilSignalled ==
    [][/\ (last'.op = "do" /\ first'.kind = "undefined")
            => (fut'[nexec'] = Pending /\ ~retp'[nexec'])
       /\ \A e \in Execs :
            (fut[e].state = "pending" /\ ~retp[e] /\ fut'[e].state # "pending")
                => \/ last'.op \in {"done", "failed"} /\ last'.e = e
                   \/ last'.op \in {"cancel", "expire"}]_vars

\* The latest execution, whose template returned undefined without calling a
\* handle, has been settled by a later call of its done.
C30_Witness ==
    /\ last.op = "done"
    /\ last.e = nexec
    /\ first.kind = "undefined"
    /\ fut[nexec].state = "resolved"

\* ------------------------------------- properties: cancel on composites
\* The latest execution of the composite is outstanding.
Busy == nexec > 0 /\ Outstanding(nexec)
\* The element outstanding in execution e succeeds in this step.
ElementSucceeds(e) ==
    /\ last'.op = "element" /\ last'.e = e
    /\ run'[e].log[Len(run[e].log)].out.st = "ok"

\* C31: cancelling a sequence composite while its latest execution is
\* outstanding, or the expiry of that execution's timer, rejects that
\* execution's future with the reason given and leaves every element
\* invocation as it was (none is cancelled, none is added); and a cancelled
\* execution goes on: when its outstanding element succeeds and the array
\* holds a further element, that element is invoked.
C31_AbortRejectsOnlyComposite ==
    [][/\ (last'.op = "cancel" /\ Busy)
            => /\ last'.ret = "true"
               /\ fut'[nexec].state = "rejected"
               /\ fut'[nexec].val = last'.sig.val
               /\ UNCHANGED <<tasks, run>>
       /\ (last'.op = "expire" /\ last'.e = nexec /\ Busy)
            => /\ fut'[nexec].state = "rejected"
               /\ fut'[nexec].val = timer[nexec].reason
               /\ UNCHANGED <<tasks, run>>
       /\ \A e \in Started :
            (ElementSucceeds(e) /\ fut[e].state = "rejected" /\ tasks # <<>>)
                => Len(run'[e].log) = Len(run[e].log) + 1]_vars

\* ------------------------------------- properties: overlapping executions
\* do() was called while the execution before the latest was outstanding,
\* and both still are.
Overlapping == nexec >= 2 /\ Outstanding(nexec - 1) /\ Outstanding(nexec)

\* C32: when executions overlap the latest one holds the cancellation handle
\* for as long as it is outstanding, whatever happens to the earlier one; and
\* cancel(reason) then returns true, rejects the latest execution's future
\* with reason and leaves the earlier execution's future alone.
C32_LatestHoldsHandle ==
    /\ [](Overlapping => _cancel = nexec)
    /\ [][(Overlapping /\ nexec' = nexec /\ fut'[nexec].state = "pending")
            => _cancel' = nexec]_vars
    /\ [][(Overlapping /\ last'.op = "cancel")
            => /\ last'.ret = "true"
               /\ fut'[nexec].state = "rejected"
               /\ fut'[nexec].val = last'.sig.val
               /\ fut'[nexec - 1] = fut[nexec - 1]]_vars

\* ------------------------------------- properties: map beside parallel
\* Execution e is a map's and e + 1 the parallel's beside it.
IsPair(e) == e % 2 = 1 /\ e + 1 <= nexec

\* C33: a map composite executed with [a1..an] and a parallel composite over
\* n Tasks made from the same template executed with the groups [a1]..[an]
\* make the same template invocations with the same arguments (an item that
\* is an array is handed over as one argument by both), their templates
\* return Promises with the same outcome, and once both futures have settled
\* they have settled alike.
C33_MapAsParallel ==
    \A e \in Started :
        IsPair(e) =>
            /\ Len(run[e].log) = Len(run[e + 1].log)
            /\ \A i \in 1..Len(run[e].log) :
                 /\ run[e].log[i].el = run[e + 1].log[i].el
                 /\ Len(run[e].log[i].args) = Len(run[e + 1].log[i].args)
                 /\ run[e].log[i].args = run[e + 1].log[i].args
                 /\ run[e].log[i].out = run[e + 1].log[i].out
            /\ run[e].ret.state = run[e + 1].ret.state
            /\ run[e].ret = run[e + 1].ret
            /\ (Settled(e) /\ Settled(e + 1)) => fut[e] = fut[e + 1]

\* Both composites were handed an item that is an array and a plain one, and
\* both have succeeded.
C33_Witness ==
    /\ IsPair(1)
    /\ Len(run[1].args[1].val) = 2
    /\ run[1].args[1].val[1].isArray
    /\ ~run[1].args[1].val[2].isArray
    /\ fut[1].state = "resolved"
    /\ fut[2].state = "resolved"

\* ------------------------------------- properties: cancel on a delay
\* Execution e of the delay composite is waiting for its delay to elapse.
InWindow(e) == run[e].ret = ReturnedUndefined /\ run[e].wait

\* C34: cancel(reason) called while the latest execution of a delay composite
\* is outstanding and waiting for its delay returns true and rejects that
\* execution's future with reason, and stops nothing: when the delay of a
\* cancelled execution elapses the template is invoked once, and the outcome
\* of that invocation changes nothing of the composite.
C34_CancelInWindow ==
    [][/\ (last'.op = "cancel" /\ Busy /\ InWindow(nexec))
            => /\ last'.ret = "true"
               /\ fut'[nexec].state = "rejected"
               /\ fut'[nexec].val = last'.sig.val
               /\ UNCHANGED run
       /\ \A e \in Started :
            /\ (last'.op = "elapsed" /\ last'.e = e /\ fut[e].state = "rejected")
                 => Len(run'[e].log) = 1
            /\ (last'.op = "element" /\ last'.e = e /\ fut[e].state = "rejected")
                 => UNCHANGED <<_cancel, _timeout, fut, timer>>]_vars

\* ------------------------------------- properties: timers
\* C35: whenever no execution of the Task is outstanding no timer armed by
\* the Task is pending, and the step that settles an execution, by whatever
\* path, leaves the timer armed for it disarmed.
C35_NoTimerWhenIdle ==
    /\ [](Idle => \A e \in Execs : ~timer[e].armed)
    /\ [][\A e \in Execs :
            (Outstanding(e) /\ fut'[e].state \in {"resolved", "rejected"})
                => ~timer'[e].armed]_vars

C37_LaterElementsGetOneValue ==
    \A e \in Started : \A i \in 1..Len(Log(e)) :
        Log(e)[i].el > 1
            => /\ i > 1
               /\ Log(e)[i - 1].el = Log(e)[i].el - 1
               /\ Log(e)[i - 1].out.st = "ok"
               /\ Len(Log(e)[i].args) = 1
               /\ Log(e)[i].args[1] = Log(e)[i - 1].out.val

\* ------------------------------------- properties: cancel on a retry
\* C38: cancelling a retry composite while a try of its latest execution is
\* outstanding, or the expiry of that execution's timer, rejects that
\* execution's future with the reason given and leaves the tries as they
\* were; and a cancelled execution goes on: when its outstanding try fails
\* with tries left, the template is invoked again.
C38_AbortLeavesRetryRunning ==
    [][/\ (last'.op = "cancel" /\ Busy /\ Running(nexec))
            => /\ last'.ret = "true"
               /\ fut'[nexec].state = "rejected"
               /\ fut'[nexec].val = last'.sig.val
               /\ UNCHANGED run
       /\ (last'.op = "expire" /\ last'.e = nexec /\ Busy /\ Running(nexec))
            => /\ fut'[nexec].state = "rejected"
               /\ fut'[nexec].val = timer[nexec].reason
               /\ UNCHANGED run
       /\ \A e \in Started :
            (/\ last'.op = "element" /\ last'.e = e
             /\ fut[e].state = "rejected"
             /\ run'[e].log[Len(run[e].log)].out.st = "failed"
             /\ run[e].tries > 0)
                => Len(run'[e].log) = Len(run[e].log) + 1]_vars

\* ------------------------------------- properties: retry terminates
Max(a, b) == IF a >= b THEN a ELSE b

IsBoth(e) == e % 2 = 1 /\ e + 1 <= nexec

\* C40: beside the first execution of a sequence or retry composite, the
\* direct form called with the same Tasks and arguments invokes the same
\* Tasks with the same arguments, and the Promise it returns settles as the
\* composite's does: a direct sequence is rejected with the reason of the
\* first Task that fails and invokes no Task after it; a direct try is
\* rejected only when no try is left, with the reason of the last try, after
\* exactly tries invocations; and in the other cases both forms succeed with
\* the same value.
C40_DirectAsComposite ==
    \A e \in Started :
        (IsBoth(e) /\ Tried(e)) =>
            /\ Len(Log(e + 1)) = Len(Log(e))
            /\ \A i \in 1..Len(Log(e)) :
                 /\ Log(e + 1)[i].el = Log(e)[i].el
                 /\ Log(e + 1)[i].args = Log(e)[i].args
                 /\ Log(e + 1)[i].out = Log(e)[i].out
            /\ fut[e + 1] = run[e].ret
            /\ Settled(e) => fut[e] = fut[e + 1]
            /\ supplied.ctor = "sequence" =>
                 \A k \in 1..Len(Log(e + 1)) :
                     Log(e + 1)[k].out.st = "failed"
                         => /\ k = Len(Log(e + 1))
                            /\ fut[e + 1] = Rejected(Log(e + 1)[k].out.val)
            /\ tasks = TryTemplate =>
                 LET n == run[e + 1].budget
                     L == Log(e + 1)
                 IN  /\ (n >= 1 /\ Len(L) = n /\ L[n].out.st = "failed")
                           => fut[e + 1] = Rejected(L[n].out.val)
                     /\ fut[e + 1].state = "rejected"
                           => IF n >= 1
                              THEN /\ Len(L) = n
                                   /\ L[n].out.st = "failed"
                                   /\ fut[e + 1].val = L[n].out.val
                              ELSE L = <<>> /\ fut[e + 1].val = Undefined

\* A composite handed two tries and the direct form beside it have both been
\* rejected after the second try failed.
C40_Witness ==
    /\ IsBoth(1)
    /\ tasks = TryTemplate
    /\ Tried(1)
    /\ run[2].budget = 2
    /\ Len(Log(2)) = 2
    /\ fut[1].state = "rejected"
    /\ fut[2].state = "rejected"
====
